---- MODULE Spec2Model ----
(***************************************************************************)
(* Movement Daily (src/app.py): a Streamlit page that reads the view       *)
(* public.mv_movement_daily for one day and one outlet, counts the rows    *)
(* flagged 'Tidak Sesuai', renames the columns, rounds the eight numeric   *)
(* columns to int64, highlights the flagged rows and offers the table as   *)
(* CSV.  Every widget interaction reruns the script from the top.          *)
(*                                                                         *)
(* A cell of the view is an option: <<>> is SQL NULL (None / NaN in the    *)
(* dataframe) and <<v>> is the value v.  A numeric value v stands for the  *)
(* number v / Scale, so that fractions are exact.  After the formatting    *)
(* loop a numeric cell is a plain integer (dtype int64).                   *)
(*                                                                         *)
(* load_filter_options and load_data are memoised by st.cache_data on      *)
(* their arguments.  The view is fixed within a behaviour, so a memoised   *)
(* result equals a fresh one: filter_df is read once, and load_data is     *)
(* evaluated in every run.                                                 *)
(***************************************************************************)
EXTENDS Integers, Sequences, FiniteSets

VARIABLES
    view,             \* the rows of public.mv_movement_daily
    filter_df,        \* load_filter_options(): the (outlet, item) pairs
    selected_date,    \* the sidebar's date; start_date = end_date = selected_date
    outlet_selected,  \* the sidebar's outlet, None when there is no option
    item_selected,    \* the sidebar's items
    pc,               \* how far the script run has come
    fetched,          \* what load_data returned to this run
    df,               \* the dataframe the run works on
    tidak_sesuai,     \* the mismatch count
    page,             \* the elements the run has put on the page
    styled_df,        \* the style of each cell of the table
    csv               \* the data of the download button

vars == <<view, filter_df, selected_date, outlet_selected, item_selected, pc,
          fetched, df, tidak_sesuai, page, styled_df, csv>>

---------------------------------------------------------------------------
(* Bounds of the model. *)

\* Rows in the view (page specification).
MaxRows == 2
\* A raw numeric value n stands for n / Scale.
Scale == 4
\* Raw numeric values range over -NegMax .. RawMax (in units of 1/Scale).
RawMax == 10
NegMax == 2

---------------------------------------------------------------------------
(* Nullable cells. *)

NULL == <<>>
Some(x) == <<x>>
IsNull(c) == c = <<>>
Val(c) == c[1]

---------------------------------------------------------------------------
(* SQL three-valued logic, as the WHERE clauses of the two queries need it. *)

SqlNot(p) == CASE p = "T" -> "F" [] p = "F" -> "T" [] OTHER -> "U"

SqlAnd(p, q) ==
    IF p = "F" \/ q = "F" THEN "F"
    ELSE IF p = "T" /\ q = "T" THEN "T"
    ELSE "U"

SqlEq(a, b) ==
    IF IsNull(a) \/ IsNull(b) THEN "U"
    ELSE IF Val(a) = Val(b) THEN "T" ELSE "F"

SqlLe(a, b) ==
    IF IsNull(a) \/ IsNull(b) THEN "U"
    ELSE IF Val(a) <= Val(b) THEN "T" ELSE "F"

\* x BETWEEN lo AND hi  is  x >= lo AND x <= hi
SqlBetween(x, lo, hi) == SqlAnd(SqlLe(lo, x), SqlLe(x, hi))

\* x IN (items): the bound tuple holds no NULL (item_options is .dropna()'d)
SqlIn(x, items) ==
    IF IsNull(x) THEN "U"
    ELSE IF Val(x) \in items THEN "T" ELSE "F"

---------------------------------------------------------------------------
(* Text.  TLC cannot index a string, so an item name is spelled out.       *)

Spell(name) ==
    CASE name = "Ayam"      -> <<"A", "y", "a", "m">>
      [] name = "Froze"     -> <<"F", "r", "o", "z", "e">>
      [] name = "Frozen"    -> <<"F", "r", "o", "z", "e", "n">>
      [] name = "Es FROZEN" -> <<"E", "s", " ", "F", "R", "O", "Z", "E", "N">>

LowerChar(ch) ==
    CASE ch = "A" -> "a" [] ch = "E" -> "e" [] ch = "F" -> "f"
      [] ch = "N" -> "n" [] ch = "O" -> "o" [] ch = "R" -> "r"
      [] ch = "Z" -> "z" [] OTHER -> ch

\* lower(text)
Lower(s) == [i \in 1..Len(s) |-> LowerChar(s[i])]

\* The pattern '%frozen%' of both queries.
FrozenPattern == <<"%", "f", "r", "o", "z", "e", "n", "%">>

\* s LIKE p, with % matching any run of characters and _ any one character
RECURSIVE Like(_, _)
Like(s, p) ==
    IF p = <<>> THEN s = <<>>
    ELSE IF Head(p) = "%"
         THEN Like(s, Tail(p)) \/ (s # <<>> /\ Like(Tail(s), p))
         ELSE /\ s # <<>>
              /\ (Head(p) = "_" \/ Head(s) = Head(p))
              /\ Like(Tail(s), Tail(p))

\* s ILIKE p: LIKE without regard to case
ILike(s, p) == Like(Lower(s), Lower(p))

\* Variant: a missing item passes the test, as Python's  "frozen" not in ...
\* would have it for an empty text.
NotFrozenNullPasses(item) ==
    IF IsNull(item) THEN "T"
    ELSE SqlNot(IF ILike(Lower(Spell(Val(item))), FrozenPattern) THEN "T" ELSE "F")

\* lower(item) NOT ILIKE '%frozen%', on a nullable item cell
NotFrozen(item) ==
    IF IsNull(item) THEN "U"
    ELSE SqlNot(IF ILike(Lower(Spell(Val(item))), FrozenPattern) THEN "T" ELSE "F")

---------------------------------------------------------------------------
(* Columns. *)

\* The select list of load_data, in order.
SqlColumns ==
    <<"tanggal", "outlet", "spv", "kota", "item", "stock_awal", "stock_masuk",
      "qty_terpakai", "qty_sisa", "ideal_usage_qty", "retur_qty",
      "qty_sisa_seharusnya", "gap_qty_sisa", "so_flag">>

\* df.rename(columns={...})
RenameColumn(col) ==
    CASE col = "tanggal"             -> "Tanggal"
      [] col = "outlet"              -> "Outlet"
      [] col = "spv"                 -> "SPV"
      [] col = "kota"                -> "Kota"
      [] col = "item"                -> "Item"
      [] col = "stock_awal"          -> "Stok Awal Hari"
      [] col = "stock_masuk"         -> "Barang Masuk (DC)"
      [] col = "qty_terpakai"        -> "Terpakai / Terjual"
      [] col = "qty_sisa"            -> "Sisa Stok Akhir"
      [] col = "ideal_usage_qty"     -> "Pemakaian Seharusnya"
      [] col = "retur_qty"           -> "Barang Retur"
      [] col = "qty_sisa_seharusnya" -> "Sisa Seharusnya"
      [] col = "gap_qty_sisa"        -> "Selisih Sisa"
      [] col = "so_flag"             -> "Status Stok"
      [] OTHER                       -> col

numeric_cols ==
    <<"Stok Awal Hari", "Barang Masuk (DC)", "Terpakai / Terjual",
      "Sisa Stok Akhir", "Pemakaian Seharusnya", "Barang Retur",
      "Sisa Seharusnya", "Selisih Sisa">>

highlight_cols == <<"Tanggal", "Outlet", "SPV", "Kota", "Item", "Status Stok">>

Range(s) == {s[i] : i \in DOMAIN s}

---------------------------------------------------------------------------
(* The view public.mv_movement_daily: the rows an upstream aggregation     *)
(* wrote.  The page only reads it.                                         *)

\* Name order of ORDER BY, for the names that occur.
OutletNames == <<"Alfamart Dago", "Alfamart Kopo">>
ItemNames == <<"Ayam", "Es FROZEN", "Froze", "Frozen">>
Days == {1, 2}

Rank(names, x) == CHOOSE i \in DOMAIN names : names[i] = x

\* NULL read as 0
Coalesce0(c) == IF IsNull(c) THEN 0 ELSE Val(c)

\* The flag the upstream view stores, by the page's own legend: 'Sesuai' when
\* Terpakai / Terjual = Pemakaian Seharusnya, on the stored (unrounded) values,
\* a missing value read as 0.
UpstreamFlag(terpakai, ideal) ==
    IF Coalesce0(terpakai) = Coalesce0(ideal) THEN "Sesuai" ELSE "Tidak Sesuai"

\* The gap the upstream view stores: qty_sisa - qty_sisa_seharusnya on the
\* stored (unrounded) values, a missing value read as 0; NULL when both are
\* missing.
UpstreamGap(sisa, seharusnya) ==
    IF IsNull(sisa) /\ IsNull(seharusnya) THEN NULL
    ELSE Some(Coalesce0(sisa) - Coalesce0(seharusnya))

\* One row of the view.  The descriptive columns follow the outlet; the eight
\* numeric columns are filled from three raw values a, b, c.
ViewRow(d, o, i, a, b, c) ==
    [tanggal |-> d, outlet |-> o,
     spv |-> IF o = Some("Alfamart Kopo") THEN Some("Budi") ELSE NULL,
     kota |-> Some("Bandung"), item |-> i,
     stock_awal |-> c, stock_masuk |-> a, qty_terpakai |-> a, qty_sisa |-> b,
     ideal_usage_qty |-> b, retur_qty |-> c, qty_sisa_seharusnya |-> c,
     gap_qty_sisa |-> UpstreamGap(b, c), so_flag |-> Some(UpstreamFlag(a, b))]

\* Raw numeric cells: NULL and the values -NegMax/Scale .. RawMax/Scale.
RawCells == {NULL} \cup {Some(n) : n \in (0 - NegMax)..RawMax}

\* Rows that differ in their numbers (one outlet, one day, one item).
RecordPool ==
    {ViewRow(Some(1), Some("Alfamart Kopo"), Some("Ayam"), q[1], q[2], q[3]) :
        q \in RawCells \X RawCells \X RawCells}

\* Rows that differ in their identity fields and flag: every day, outlet and
\* item, flagged or not, and rows in which one identity field is NULL.
IdentityPool ==
    LET one == Some(Scale)
        Used == {one, Some(2 * Scale)}
        full == {ViewRow(Some(q[1]), Some(q[2]), Some(q[3]), q[4], one, one) :
                    q \in Days \X Range(OutletNames) \X Range(ItemNames) \X Used}
        nodate == {ViewRow(NULL, Some("Alfamart Kopo"), Some("Ayam"), a, one, one) : a \in Used}
        nooutlet == {ViewRow(Some(1), NULL, Some("Ayam"), a, one, one) : a \in Used}
        noitem == {ViewRow(Some(1), Some("Alfamart Kopo"), NULL, a, one, one) : a \in Used}
    IN  full \cup nodate \cup nooutlet \cup noitem

\* The subsets of S with at most k elements.
RECURSIVE SubsetsUpTo(_, _)
SubsetsUpTo(S, k) ==
    IF k = 0 THEN {{}}
    ELSE LET smaller == SubsetsUpTo(S, k - 1)
         IN  smaller \cup {s \cup {x} : s \in smaller, x \in S}

---------------------------------------------------------------------------
(* The two queries. *)

\* The elements of S in the order of names.
InNameOrder(S, names) == SelectSeq(names, LAMBDA x : x \in S)

\* load_filter_options(): SELECT DISTINCT outlet, item ... WHERE lower(item)
\* NOT ILIKE '%frozen%' ORDER BY outlet, item
load_filter_options(v) ==
    {<<r.outlet, r.item>> : r \in {x \in v : NotFrozen(x.item) = "T"}}

\* filter_df["outlet"].dropna().unique().tolist()
outlet_options(fdf) ==
    InNameOrder({Val(p[1]) : p \in {q \in fdf : ~IsNull(q[1])}}, OutletNames)

\* "Alfamart Kopo" when it is an option, otherwise the first option; a
\* selectbox without options returns None
DefaultOutlet(fdf) ==
    LET opts == outlet_options(fdf)
    IN  IF opts = <<>> THEN NULL
        ELSE IF "Alfamart Kopo" \in Range(opts) THEN Some("Alfamart Kopo")
        ELSE Some(opts[1])

\* filter_df[filter_df["outlet"] == outlet_selected]["item"].dropna().unique().tolist()
item_options(fdf, outlet) ==
    InNameOrder({Val(p[2]) : p \in {q \in fdf : /\ ~IsNull(outlet)
                                                 /\ q[1] = outlet
                                                 /\ ~IsNull(q[2])}},
                ItemNames)

\* Variant: AND item IN :items is added even when no item was chosen.
WhereClauseAlwaysIn(r, start_date, end_date, outlet, items) ==
    SqlAnd(SqlAnd(SqlAnd(SqlBetween(r.tanggal, Some(start_date), Some(end_date)),
                         NotFrozen(r.item)),
                  SqlEq(r.outlet, outlet)),
           SqlIn(r.item, items))

\* The WHERE clause of load_data, with AND item IN :items when items were chosen.
WhereClause(r, start_date, end_date, outlet, items) ==
    LET base == SqlAnd(SqlAnd(SqlBetween(r.tanggal, Some(start_date), Some(end_date)),
                              NotFrozen(r.item)),
                       SqlEq(r.outlet, outlet))
    IN  IF items # {} THEN SqlAnd(base, SqlIn(r.item, items)) ELSE base

QueryRows(v, start_date, end_date, outlet, items) ==
    {r \in v : WhereClause(r, start_date, end_date, outlet, items) = "T"}

\* The sort key of one ORDER BY column: ascending, NULLs last.
SortKey(c, rank) == IF IsNull(c) THEN <<1, 0>> ELSE <<0, rank>>

KeyLt(k1, k2) == k1[1] < k2[1] \/ (k1[1] = k2[1] /\ k1[2] < k2[2])

\* ORDER BY tanggal, outlet, item
KeyLe(r1, r2) ==
    LET Keys(r) == <<SortKey(r.tanggal, IF IsNull(r.tanggal) THEN 0 ELSE Val(r.tanggal)),
                     SortKey(r.outlet, IF IsNull(r.outlet) THEN 0 ELSE Rank(OutletNames, Val(r.outlet))),
                     SortKey(r.item, IF IsNull(r.item) THEN 0 ELSE Rank(ItemNames, Val(r.item)))>>
        k1 == Keys(r1)
        k2 == Keys(r2)
    IN  \/ KeyLt(k1[1], k2[1])
        \/ k1[1] = k2[1] /\ KeyLt(k1[2], k2[2])
        \/ k1[1] = k2[1] /\ k1[2] = k2[2] /\ ~KeyLt(k2[3], k1[3])

\* The sequences that list every element of S once.
Enumerations(S) ==
    {s \in [1..Cardinality(S) -> S] : \A i, j \in DOMAIN s : i # j => s[i] # s[j]}

\* load_data(start_date, end_date, outlet_selected, item_selected): the
\* dataframes the query may return; rows with equal keys come in any order.
load_data(v, start_date, end_date, outlet, items) ==
    {s \in Enumerations(QueryRows(v, start_date, end_date, outlet, items)) :
        \A i, j \in DOMAIN s : i < j => KeyLe(s[i], s[j])}

---------------------------------------------------------------------------
(* The dataframe operations of the script.  A dataframe is its column list *)
(* and its rows, each row a function of the column names.                  *)

\* Variant: the count stops at the first row that is not flagged.
RECURSIVE tidak_sesuai_prefix(_)
tidak_sesuai_prefix(rows) ==
    IF rows = <<>> THEN 0
    ELSE IF Head(rows)["so_flag"] = Some("Tidak Sesuai")
         THEN 1 + tidak_sesuai_prefix(Tail(rows))
         ELSE 0

\* (df["so_flag"] == "Tidak Sesuai").sum(): a row with a NULL flag compares False
RECURSIVE tidak_sesuai_sum(_)
tidak_sesuai_sum(rows) ==
    IF rows = <<>> THEN 0
    ELSE (IF Head(rows)["so_flag"] = Some("Tidak Sesuai") THEN 1 ELSE 0)
         + tidak_sesuai_sum(Tail(rows))

RenameRow(row) ==
    [c \in {RenameColumn(k) : k \in DOMAIN row} |->
        row[CHOOSE k \in DOMAIN row : RenameColumn(k) = c]]

\* Variant: the rows with a missing value are dropped while renaming.
rename_dropna(frame) ==
    LET kept == SelectSeq(frame.rows, LAMBDA row : \A k \in DOMAIN row : ~IsNull(row[k]))
    IN  [columns |-> [i \in DOMAIN frame.columns |-> RenameColumn(frame.columns[i])],
         rows |-> [i \in DOMAIN kept |-> RenameRow(kept[i])]]

\* df.rename(columns={...}): a new frame, the fetched one is left as it was
rename(frame) ==
    [columns |-> [i \in DOMAIN frame.columns |-> RenameColumn(frame.columns[i])],
     rows |-> [i \in DOMAIN frame.rows |-> RenameRow(frame.rows[i])]]

\* Variant: the loop without .fillna(0).
fillna_missing(c) == c

\* .fillna(0): NaN becomes 0.0
fillna0(c) == IF IsNull(c) THEN Some(0) ELSE c

\* Variant: a tie goes up (round half up).
RoundHalfUp(n) ==
    LET q == n \div Scale
        r == n % Scale
    IN  IF 2 * r < Scale THEN q ELSE q + 1

\* numpy's round of n / Scale to an integer: to the nearest, a tie to the even one
RoundHalfEven(n) ==
    LET q == n \div Scale
        r == n % Scale
    IN  IF 2 * r < Scale THEN q
        ELSE IF 2 * r > Scale THEN q + 1
        ELSE IF q % 2 = 0 THEN q ELSE q + 1

\* .round(0): still a float, and NaN stays NaN
round0(c) == IF IsNull(c) THEN NULL ELSE Some(Scale * RoundHalfEven(Val(c)))

\* .astype("int64") raises on NaN (IntCastingNaNError)
CastRaises(c) == IsNull(c)

\* .astype("int64") of a whole float
astype_int64(c) == Val(c) \div Scale

\* df[col].fillna(0).round(0), the series handed to astype
Rounded(c) == round0(fillna0(c))

\* for col in numeric_cols: df[col] = df[col].fillna(0).round(0).astype("int64")
RECURSIVE FormatColumns(_, _)
FormatColumns(rows, cols) ==
    IF cols = <<>> THEN rows
    ELSE FormatColumns([i \in DOMAIN rows |->
                            [rows[i] EXCEPT ![Head(cols)] = astype_int64(Rounded(@))]],
                       Tail(cols))

\* Whether the loop raises: some cell is still NaN when it is cast.
FormatRaises(rows, cols) ==
    \E i \in DOMAIN rows : \E j \in DOMAIN cols : CastRaises(Rounded(rows[i][cols[j]]))

Css == "background-color: #ffcccc; font-weight: bold;"

\* Variant: without  and col in highlight_cols.
highlight_every_column(row, index) ==
    [i \in DOMAIN index |->
        IF row["Status Stok"] = Some("Tidak Sesuai") THEN Css ELSE ""]

\* highlight_tidak_sesuai(row): one style per column of row.index
highlight_tidak_sesuai(row, index) ==
    [i \in DOMAIN index |->
        IF row["Status Stok"] = Some("Tidak Sesuai") /\ index[i] \in Range(highlight_cols)
        THEN Css ELSE ""]

\* One CSV field: an int64 as it is, a missing value as the empty field
CsvCell(col, c) ==
    IF col \in Range(numeric_cols) THEN c
    ELSE IF IsNull(c) THEN "" ELSE Val(c)

\* df.to_csv(index=False): the header line, then one line per row
to_csv(frame) ==
    <<frame.columns>> \o
    [i \in DOMAIN frame.rows |->
        [j \in DOMAIN frame.columns |->
            CsvCell(frame.columns[j], frame.rows[i][frame.columns[j]])]]

\* What the page shows, in the order the script emits it.
Caption(d) == [kind |-> "caption", text |-> "Periode Data", arg |-> d]
EmptyWarning == [kind |-> "warning", text |-> "Tidak ada data untuk filter yang dipilih", arg |-> 0]
CountWarning(n) == [kind |-> "warning", text |-> "Jumlah Data Tidak Sesuai", arg |-> n]
Divider == [kind |-> "divider", text |-> "", arg |-> 0]
Dataframe == [kind |-> "dataframe", text |-> "", arg |-> 0]
Legend == [kind |-> "markdown", text |-> "Keterangan Kolom", arg |-> 0]
DownloadButton == [kind |-> "download_button", text |-> "movement_daily.csv", arg |-> 0]

NoFrame == [columns |-> <<>>, rows |-> <<>>]

---------------------------------------------------------------------------
(* The page. *)

\* A script run starts with the sidebar as the user left it.
StartRun ==
    /\ pc' = "start"
    /\ fetched' = <<>>
    /\ df' = NoFrame
    /\ tidak_sesuai' = 0
    /\ page' = <<>>
    /\ styled_df' = <<>>
    /\ csv' = <<>>

Sidebar(v) ==
    /\ view = v
    /\ filter_df = load_filter_options(v)
    /\ selected_date \in Days
    /\ outlet_selected = DefaultOutlet(filter_df)
    /\ item_selected = {}
    /\ pc = "start"
    /\ fetched = <<>>
    /\ df = NoFrame
    /\ tidak_sesuai = 0
    /\ page = <<>>
    /\ styled_df = <<>>
    /\ csv = <<>>

\* The page over a view of up to MaxRows rows.
Init == \E v \in SubsetsUpTo(IdentityPool, MaxRows) : Sidebar(v)

\* The page over one record of the view.
InitRecord == \E r \in RecordPool : Sidebar({r})

\* st.sidebar.date_input("Tanggal")
SelectDate(d) ==
    /\ selected_date' = d
    /\ UNCHANGED <<view, filter_df, outlet_selected, item_selected>>
    /\ StartRun

\* st.sidebar.selectbox("Outlet"); the item multiselect keeps its choice only
\* while its options stay the same
SelectOutlet(o) ==
    /\ o \in Range(outlet_options(filter_df))
    /\ outlet_selected' = Some(o)
    /\ item_selected' = IF item_options(filter_df, Some(o)) = item_options(filter_df, outlet_selected)
                        THEN item_selected ELSE {}
    /\ UNCHANGED <<view, filter_df, selected_date>>
    /\ StartRun

\* st.sidebar.multiselect("Item", options=item_options)
SelectItems(items) ==
    /\ items \subseteq Range(item_options(filter_df, outlet_selected))
    /\ item_selected' = items
    /\ UNCHANGED <<view, filter_df, selected_date, outlet_selected>>
    /\ StartRun

\* df = load_data(...); st.caption(...)
LoadData ==
    /\ pc = "start"
    /\ \E s \in load_data(view, selected_date, selected_date, outlet_selected, item_selected) :
          /\ fetched' = s
          /\ df' = [columns |-> SqlColumns, rows |-> s]
    /\ page' = Append(page, Caption(selected_date))
    /\ pc' = "loaded"
    /\ UNCHANGED <<view, filter_df, selected_date, outlet_selected, item_selected,
                   tidak_sesuai, styled_df, csv>>

\* Variant: the warning without st.stop(): the run goes on to the count.
EmptyStopContinues ==
    /\ pc = "loaded"
    /\ df.rows = <<>>
    /\ tidak_sesuai' = tidak_sesuai_sum(df.rows)
    /\ page' = page \o <<EmptyWarning, CountWarning(tidak_sesuai'), Divider>>
    /\ pc' = "counted"
    /\ UNCHANGED <<view, filter_df, selected_date, outlet_selected, item_selected,
                   fetched, df, styled_df, csv>>

\* if df.empty: st.warning(...); st.stop()
EmptyStop ==
    /\ pc = "loaded"
    /\ df.rows = <<>>
    /\ page' = Append(page, EmptyWarning)
    /\ pc' = "stopped"
    /\ UNCHANGED <<view, filter_df, selected_date, outlet_selected, item_selected,
                   fetched, df, tidak_sesuai, styled_df, csv>>

\* tidak_sesuai = (df["so_flag"] == "Tidak Sesuai").sum(); st.warning; st.divider
CountMismatch ==
    /\ pc = "loaded"
    /\ df.rows # <<>>
    /\ tidak_sesuai' = tidak_sesuai_sum(df.rows)
    /\ page' = page \o <<CountWarning(tidak_sesuai'), Divider>>
    /\ pc' = "counted"
    /\ UNCHANGED <<view, filter_df, selected_date, outlet_selected, item_selected,
                   fetched, df, styled_df, csv>>

\* df = df.rename(columns={...})
RenameColumns ==
    /\ pc = "counted"
    /\ df' = rename(df)
    /\ pc' = "renamed"
    /\ UNCHANGED <<view, filter_df, selected_date, outlet_selected, item_selected,
                   fetched, tidak_sesuai, page, styled_df, csv>>

\* the loop over numeric_cols; an exception ends the run
FormatNumeric ==
    /\ pc = "renamed"
    /\ IF FormatRaises(df.rows, numeric_cols)
       THEN pc' = "error" /\ df' = df
       ELSE /\ df' = [df EXCEPT !.rows = FormatColumns(df.rows, numeric_cols)]
            /\ pc' = "formatted"
    /\ UNCHANGED <<view, filter_df, selected_date, outlet_selected, item_selected,
                   fetched, tidak_sesuai, page, styled_df, csv>>

\* styled_df = df.style.apply(highlight_tidak_sesuai, axis=1); st.dataframe;
\* st.markdown (the legend)
RenderTable ==
    /\ pc = "formatted"
    /\ styled_df' = [i \in DOMAIN df.rows |-> highlight_tidak_sesuai(df.rows[i], df.columns)]
    /\ page' = page \o <<Dataframe, Legend>>
    /\ pc' = "rendered"
    /\ UNCHANGED <<view, filter_df, selected_date, outlet_selected, item_selected,
                   fetched, df, tidak_sesuai, csv>>

\* st.download_button(data=df.to_csv(index=False), ...)
Download ==
    /\ pc = "rendered"
    /\ csv' = to_csv(df)
    /\ page' = Append(page, DownloadButton)
    /\ pc' = "done"
    /\ UNCHANGED <<view, filter_df, selected_date, outlet_selected, item_selected,
                   fetched, df, tidak_sesuai, styled_df>>

\* The statements of one script run.
ScriptStep ==
    \/ LoadData
    \/ EmptyStop
    \/ CountMismatch
    \/ RenameColumns
    \/ FormatNumeric
    \/ RenderTable
    \/ Download

Next ==
    \/ \E d \in Days : SelectDate(d)
    \/ \E o \in Range(OutletNames) : SelectOutlet(o)
    \/ \E items \in SUBSET Range(ItemNames) : SelectItems(items)
    \/ ScriptStep

Spec == Init /\ [][Next]_vars

SpecRecord == InitRecord /\ [][Next]_vars

---------------------------------------------------------------------------
(* Properties. *)

\* The run has derived its records (renamed and formatted them).
Derived == pc \in {"formatted", "rendered", "done"}

\* The eight numeric fields of a movement record, by their names in the view.
NumericFields ==
    {"stock_awal", "stock_masuk", "qty_terpakai", "qty_sisa", "ideal_usage_qty",
     "retur_qty", "qty_sisa_seharusnya", "gap_qty_sisa"}

\* The displayed name of a field of the view.
Shown(field) ==
    CASE field = "stock_awal"          -> "Stok Awal Hari"
      [] field = "stock_masuk"         -> "Barang Masuk (DC)"
      [] field = "qty_terpakai"        -> "Terpakai / Terjual"
      [] field = "qty_sisa"            -> "Sisa Stok Akhir"
      [] field = "ideal_usage_qty"     -> "Pemakaian Seharusnya"
      [] field = "retur_qty"           -> "Barang Retur"
      [] field = "qty_sisa_seharusnya" -> "Sisa Seharusnya"
      [] field = "gap_qty_sisa"        -> "Selisih Sisa"
      [] field = "tanggal"             -> "Tanggal"
      [] field = "outlet"              -> "Outlet"
      [] field = "spv"                 -> "SPV"
      [] field = "kota"                -> "Kota"
      [] field = "item"                -> "Item"
      [] field = "so_flag"             -> "Status Stok"

\* Whether the pair a policy selects is equal in a derived record.
PolicyPairEqual(row, policy) ==
    IF policy = "CLOSING_STOCK"
    THEN row["Sisa Stok Akhir"] = row["Sisa Seharusnya"]
    ELSE row["Terpakai / Terjual"] = row["Pemakaian Seharusnya"]

\* C1: for every derived record and for each policy (CLOSING_STOCK, CONSUMPTION),
\* the status is MATCH ('Sesuai') exactly when the pair the policy selects is
\* equal after null-to-zero normalisation and rounding, and MISMATCH
\* ('Tidak Sesuai') otherwise.
C1_StatusIffPolicyPairEqual ==
    Derived =>
        \A i \in DOMAIN df.rows : \A policy \in {"CLOSING_STOCK", "CONSUMPTION"} :
            /\ df.rows[i]["Status Stok"] \in {Some("Sesuai"), Some("Tidak Sesuai")}
            /\ (df.rows[i]["Status Stok"] = Some("Sesuai"))
                  <=> PolicyPairEqual(df.rows[i], policy)

\* C2: in every derived record Selisih Sisa (gap_qty) equals Sisa Stok Akhir
\* (closing_stock) minus Sisa Seharusnya (expected_closing_stock) exactly.
C2_GapIsClosingMinusExpected ==
    Derived =>
        \A i \in DOMAIN df.rows :
            df.rows[i]["Selisih Sisa"]
                = df.rows[i]["Sisa Stok Akhir"] - df.rows[i]["Sisa Seharusnya"]

\* The derived record of one fetched row.
DeriveRow(row) == FormatColumns(<<RenameRow(row)>>, numeric_cols)[1]

\* C4: a record with a numeric field NULL yields the same derived record as the
\* same record with that field 0, for each of the eight numeric fields, and the
\* formatting never raises.
C4_NullNumericIsZero ==
    /\ pc # "error"
    /\ Derived =>
          \A i \in DOMAIN fetched : \A k \in NumericFields :
              IsNull(fetched[i][k]) =>
                  /\ df.rows[i][Shown(k)] = 0
                  /\ df.rows[i] = DeriveRow([fetched[i] EXCEPT ![k] = Some(0)])

\* C4 witness: a record with NULL numeric fields, the stored gap among them,
\* has been derived.
C4_Witness ==
    /\ Derived
    /\ \E i \in DOMAIN fetched :
          /\ IsNull(fetched[i]["qty_terpakai"])
          /\ IsNull(fetched[i]["qty_sisa"])
          /\ IsNull(fetched[i]["gap_qty_sisa"])
          /\ df.rows[i]["Selisih Sisa"] = 0

\* |a - b|
Dist(a, b) == IF a >= b THEN a - b ELSE b - a

\* C7: each of the eight numeric fields of every derived record is the integer
\* nearest to the raw value (NULL read as 0), a tie going to the even integer:
\* 0.5 -> 0, 1.5 -> 2, 2.5 -> 2, -0.5 -> 0.
C7_RoundHalfToEven ==
    Derived =>
        \A i \in DOMAIN df.rows : \A k \in NumericFields :
            LET x == Coalesce0(fetched[i][k])
                d == df.rows[i][Shown(k)]
                half == Scale \div 2
            IN  /\ d \in Int
                /\ 2 * Dist(Scale * d, x) <= Scale
                /\ (2 * Dist(Scale * d, x) = Scale) => (d % 2 = 0)
                /\ (Scale % 2 = 0) =>
                      /\ (x = half) => (d = 0)
                      /\ (x = 3 * half) => (d = 2)
                      /\ (x = 5 * half) => (d = 2)
                      /\ (x = 0 - half) => (d = 0)

\* C7 witness: a derived record whose raw values were 2.5, -0.5 and 1.5.
C7_Witness ==
    /\ Derived
    /\ \E i \in DOMAIN df.rows :
          /\ fetched[i]["qty_terpakai"] = Some(5 * (Scale \div 2))
          /\ df.rows[i]["Terpakai / Terjual"] = 2
          /\ fetched[i]["qty_sisa"] = Some(0 - (Scale \div 2))
          /\ df.rows[i]["Sisa Stok Akhir"] = 0
          /\ fetched[i]["qty_sisa_seharusnya"] = Some(3 * (Scale \div 2))
          /\ df.rows[i]["Sisa Seharusnya"] = 2

---------------------------------------------------------------------------
(* Properties of the page over a view of several rows. *)

\* The run has counted the flagged rows.
Counted == pc \in {"counted", "renamed", "formatted", "rendered", "done"}

\* The positions of the records whose status is MISMATCH.
MismatchIndexes(rows) == {i \in DOMAIN rows : rows[i]["so_flag"] = Some("Tidak Sesuai")}

\* The sequences that hold the elements of s in some order.
Reorderings(s) == {[i \in DOMAIN s |-> s[f[i]]] : f \in Enumerations(DOMAIN s)}

\* C3: the mismatch count equals the number of records whose status is
\* MISMATCH (so_flag = 'Tidak Sesuai'), and counting any permutation of the
\* records gives the same number.
C3_CountIsOrderIndependent ==
    Counted =>
        /\ tidak_sesuai = Cardinality(MismatchIndexes(fetched))
        /\ \A p \in Reorderings(fetched) : tidak_sesuai_sum(p) = tidak_sesuai

\* C3 witness: two records were counted, the first of them the only MISMATCH.
C3_Witness ==
    /\ pc = "counted"
    /\ Len(fetched) >= 2
    /\ MismatchIndexes(fetched) = {1}
    /\ tidak_sesuai = 1

\* A record without a date, an outlet or an item.
MissingIdentity(r) == IsNull(r.tanggal) \/ IsNull(r.outlet) \/ IsNull(r.item)

\* C5: a record whose date, outlet or item is absent is never fetched, so it
\* gets no derived record and no defaulted identity, the run does not fail on
\* it, and the mismatch count is the count the page shows without that record,
\* whatever its flag.
C5_MissingIdentityExcluded ==
    /\ pc # "error"
    /\ \A r \in view :
          MissingIdentity(r) =>
              /\ r \notin Range(fetched)
              /\ Counted =>
                    \A s \in load_data(view \ {r}, selected_date, selected_date,
                                       outlet_selected, item_selected) :
                        tidak_sesuai = Cardinality(MismatchIndexes(s))
    /\ \A i \in DOMAIN fetched : ~MissingIdentity(fetched[i])
    /\ Derived =>
          \A i \in DOMAIN df.rows :
              /\ ~IsNull(df.rows[i]["Tanggal"])
              /\ ~IsNull(df.rows[i]["Outlet"])
              /\ ~IsNull(df.rows[i]["Item"])
    /\ pc = "done" => Len(csv) = 1 + Cardinality({r \in Range(fetched) : ~MissingIdentity(r)})

\* C5 witness: the run finished over a view that holds a flagged record
\* without an item next to a record that was fetched.
C5_Witness ==
    /\ pc = "done"
    /\ fetched # <<>>
    /\ \E r \in view :
          /\ IsNull(r.item)
          /\ r.tanggal = Some(selected_date)
          /\ r.outlet = outlet_selected
          /\ r.so_flag = Some("Tidak Sesuai")

\* The kinds of the elements on the page, in order.
Kinds(elements) == [i \in DOMAIN elements |-> elements[i].kind]

\* C6: over an empty record set the run shows the empty-result message, a
\* warning, and stops: no count, no table, no CSV.  Over a non-empty one the
\* message is never shown, and the count, the table and the CSV are produced
\* in that order.
C6_EmptyResultStops ==
    /\ (pc = "loaded" /\ fetched = <<>>) => (ENABLED EmptyStop /\ ~ENABLED CountMismatch)
    /\ (pc = "loaded" /\ fetched # <<>>) => (ENABLED CountMismatch /\ ~ENABLED EmptyStop)
    /\ pc = "stopped" =>
          /\ fetched = <<>>
          /\ Kinds(page) = <<"caption", "warning">>
          /\ page[2].text = "Tidak ada data untuk filter yang dipilih"
          /\ styled_df = <<>>
          /\ csv = <<>>
          /\ ~ENABLED ScriptStep
    /\ Counted =>
          /\ fetched # <<>>
          /\ \A i \in DOMAIN page : page[i].text # "Tidak ada data untuk filter yang dipilih"
          /\ \E n \in 1..Len(Kinds(page)) :
                SubSeq(<<"caption", "warning", "divider", "dataframe", "markdown",
                         "download_button">>, 1, n) = Kinds(page)
          /\ page[2].text = "Jumlah Data Tidak Sesuai"
          /\ page[2].arg = tidak_sesuai
    /\ pc = "done" =>
          /\ Kinds(page) = <<"caption", "warning", "divider", "dataframe", "markdown",
                             "download_button">>
          /\ Len(styled_df) = Len(fetched)
          /\ Len(csv) = Len(fetched) + 1

\* C6 witness: the run stopped on the empty-result message although the view
\* holds rows.
C6_Witness ==
    /\ pc = "stopped"
    /\ view # {}
    /\ Len(page) = 2

\* C8 and C9 name the displayed columns themselves.
IdentityFields == {"tanggal", "outlet", "spv", "kota", "item"}

\* The position of a column in the header line of the CSV.
CsvColumn(name) == CHOOSE j \in DOMAIN csv[1] : csv[1][j] = name

\* C8: renaming and formatting keep the number of records, their order (by
\* date, outlet, item), their identity and descriptive fields and their
\* status; the CSV holds one line per fetched record, with the same fields and
\* the status the mismatch count was computed from.
C8_DeriveKeepsRecords ==
    /\ pc \in {"renamed", "formatted", "rendered", "done"} =>
          /\ Len(df.rows) = Len(fetched)
          /\ \A i \in DOMAIN fetched : \A k \in IdentityFields \cup {"so_flag"} :
                df.rows[i][Shown(k)] = fetched[i][k]
          /\ \A i, j \in DOMAIN df.rows :
                i < j =>
                    LET a == df.rows[i]
                        b == df.rows[j]
                        oa == Rank(OutletNames, Val(a["Outlet"]))
                        ob == Rank(OutletNames, Val(b["Outlet"]))
                        ia == Rank(ItemNames, Val(a["Item"]))
                        ib == Rank(ItemNames, Val(b["Item"]))
                    IN  \/ Val(a["Tanggal"]) < Val(b["Tanggal"])
                        \/ a["Tanggal"] = b["Tanggal"] /\ oa < ob
                        \/ a["Tanggal"] = b["Tanggal"] /\ oa = ob /\ ia <= ib
          /\ tidak_sesuai =
                Cardinality({i \in DOMAIN df.rows : df.rows[i]["Status Stok"] = Some("Tidak Sesuai")})
    /\ pc = "done" =>
          /\ Len(csv) = Len(fetched) + 1
          /\ \A i \in DOMAIN fetched : \A k \in IdentityFields \cup {"so_flag"} :
                csv[i + 1][CsvColumn(Shown(k))]
                    = IF IsNull(fetched[i][k]) THEN "" ELSE Val(fetched[i][k])
          /\ \A i \in DOMAIN fetched : \A k \in NumericFields :
                csv[i + 1][CsvColumn(Shown(k))] = df.rows[i][Shown(k)]
          /\ tidak_sesuai =
                Cardinality({i \in DOMAIN fetched :
                                csv[i + 1][CsvColumn("Status Stok")] = "Tidak Sesuai"})

\* C8 witness: two records, one of them flagged and one without a supervisor
\* name, were exported.
C8_Witness ==
    /\ pc = "done"
    /\ Len(csv) = 3
    /\ tidak_sesuai = 1
    /\ \E i \in DOMAIN fetched : IsNull(fetched[i]["spv"])

\* C9: a cell of the table is highlighted exactly when its row's status is
\* MISMATCH and its column is one of Tanggal, Outlet, SPV, Kota, Item, Status
\* Stok; the rows with a highlighted cell are as many as the mismatch count.
C9_HighlightIffMismatch ==
    pc \in {"rendered", "done"} =>
        /\ Len(styled_df) = Len(df.rows)
        /\ \A i \in DOMAIN df.rows :
              /\ Len(styled_df[i]) = Len(df.columns)
              /\ \A j \in DOMAIN df.columns :
                    (styled_df[i][j] # "") <=>
                        /\ df.rows[i]["Status Stok"] = Some("Tidak Sesuai")
                        /\ df.columns[j] \in {"Tanggal", "Outlet", "SPV", "Kota", "Item",
                                              "Status Stok"}
        /\ Cardinality({i \in DOMAIN styled_df :
                            \E j \in DOMAIN styled_df[i] : styled_df[i][j] # ""})
              = tidak_sesuai

\* C9 witness: a table with a highlighted row and a row without highlight.
C9_Witness ==
    /\ pc = "rendered"
    /\ \E i, j \in DOMAIN styled_df :
          /\ styled_df[i][1] # ""
          /\ \A k \in DOMAIN styled_df[j] : styled_df[j][k] = ""

\* 'frozen' occurs in the text, whatever the case of its letters.
ContainsFrozen(text) ==
    LET word == <<"f", "r", "o", "z", "e", "n">>
    IN  \E at \in 0..(Len(text) - Len(word)) :
            \A j \in DOMAIN word : LowerChar(text[at + j]) = word[j]

\* The rows C10 says load_data returns.
Selected(v, start_date, end_date, outlet, items) ==
    {r \in v :
        /\ ~IsNull(r.tanggal)
        /\ start_date <= Val(r.tanggal)
        /\ Val(r.tanggal) <= end_date
        /\ ~IsNull(r.outlet)
        /\ r.outlet = outlet
        /\ ~IsNull(r.item)
        /\ ~ContainsFrozen(Spell(Val(r.item)))
        /\ (items = {} \/ Val(r.item) \in items)}

\* The days a query may name: those of the view and the days around them.
QueryDays == Days \cup {d - 1 : d \in Days} \cup {d + 1 : d \in Days}

====
